---- MODULE Spec2Model ----
(***************************************************************************)
(* SmartScan (FinStraddle/smartscan): the retrieval cache (DatabaseManager *)
(* over the sqlite table stock_data), the Collector (StockDataCollector),  *)
(* the batch pipeline of run_cli and the fallback resolver                 *)
(* (fetch_stock_data, fetch_nifty50_data).                                 *)
(*                                                                         *)
(* Dates are day numbers.  A value of the sqlite column is a TEXT; a text  *)
(* is modelled as <<day, t>> with t = 0 for 'YYYY-MM-DD' (what the sqlite3 *)
(* adapter writes for a datetime.date) and t = 1 for                       *)
(* 'YYYY-MM-DD HH:MM:SS...' (what it writes for a datetime).  sqlite       *)
(* compares texts byte by byte, so 'YYYY-MM-DD' sorts before every         *)
(* 'YYYY-MM-DD HH:MM:SS...' of the same day and after every text of an     *)
(* earlier day.                                                            *)
(***************************************************************************)
EXTENDS Integers, Sequences, FiniteSets, TLC

\* ------------------------------------------------------------------ bounds
MaxDay == 3
MaxLen == 2

Symbols == {"A.NS", "B.NS", "C.NS"}
StoreSymbols == {"A.NS", "B.NS"}
Days == 1..MaxDay
Closes == {1, 2}

\* The machine clock (datetime.now()) in minutes of the day: 10:30 and 12:30
\* (16:00 and 18:00 IST).
ClockMinutes == {630, 750}

None == [none |-> TRUE]

VARIABLES
    table,      \* the rows of the sqlite table stock_data, in insertion order
    hasPK,      \* whether the table still has PRIMARY KEY (symbol, date)
    now,        \* the machine clock: [day, minute]
    ret,        \* the last DatabaseManager call and what it returned
    batch,      \* run_cli: the symbols still to collect
    data,       \* run_cli: the dictionary the current stage holds
    stage,      \* run_cli: the stage the pipeline is at
    events,     \* StockDataCollector.get_stock_data: the calls of the last run
    feed,       \* what the provider answered, per window, during the last run
    res,        \* the fallback resolver's state
    sig         \* generate_signals: the row being scored and what it got

storeVars == <<table, hasPK, now, ret>>
batchVars == <<batch, data, stage, events, feed>>
vars == <<table, hasPK, now, ret, batch, data, stage, events, feed, res, sig>>

\* ------------------------------------------------------------- sqlite texts
\* datetime.date -> 'YYYY-MM-DD' (sqlite3's adapter, date.isoformat()).
AdaptDate(d) == <<d, 0>>

\* datetime / Timestamp -> 'YYYY-MM-DD HH:MM:SS' (datetime.isoformat(" ")).
AdaptDatetime(d) == <<d, 1>>

\* Byte-wise comparison of two texts.
TextLeq(a, b) == a[1] < b[1] \/ (a[1] = b[1] /\ a[2] <= b[2])

\* datetime.strptime(text, '%Y-%m-%d'): ValueError ("unconverted data
\* remains") for a text with a time part.
StrptimeYmd(text) == IF text[2] = 0 THEN [ok |-> TRUE, day |-> text[1]]
                                    ELSE [ok |-> FALSE, day |-> 0]

\* pandas' parse_dates on a column of the result: text -> Timestamp.
ParseDate(text) == text[1]

\* ------------------------------------------------------------------ frames
\* A DataFrame of the provider: rows [date, close], strictly ascending dates.
RECURSIVE Ascending(_)
Ascending(s) == IF Len(s) <= 1 THEN TRUE
                ELSE s[1].date < s[2].date /\ Ascending(Tail(s))

FrameRow == [date : Days, close : Closes]

Frames == UNION {{s \in [1..n -> FrameRow] : Ascending(s)} : n \in 0..MaxLen}

\* ------------------------------------------------------- DatabaseManager
\* df_to_save = data.reset_index(); df_to_save['symbol'] = symbol;
\* df_to_save['last_updated'] = datetime.now()
DfToSave(symbol, frame, clock) ==
    [i \in 1..Len(frame) |->
        [symbol |-> symbol, date |-> AdaptDatetime(frame[i].date),
         close |-> frame[i].close, last_updated |-> clock]]

\* The frame's rows added to the rows the table already has.
ToSqlAppend(tbl, rows) == tbl \o rows

\* to_sql('stock_data', conn, if_exists='replace', index=False): the table is
\* dropped and created again from the frame, then the frame's rows inserted.
ToSqlReplace(tbl, rows) == rows

\* ORDER BY date: insertion sort on the date text.
RECURSIVE InsertByDate(_, _)
InsertByDate(r, s) ==
    IF s = <<>> THEN <<r>>
    ELSE IF TextLeq(s[1].date, r.date) THEN <<s[1]>> \o InsertByDate(r, Tail(s))
    ELSE <<r>> \o s

RECURSIVE OrderByDate(_)
OrderByDate(s) == IF s = <<>> THEN <<>>
                  ELSE InsertByDate(s[Len(s)], OrderByDate(SubSeq(s, 1, Len(s) - 1)))

\* WHERE symbol = ? AND date BETWEEN ? AND ?  with the parameters
\* start_date.date(), end_date.date().
InRange(r, symbol, start, end) ==
    /\ r.symbol = symbol
    /\ TextLeq(AdaptDate(start), r.date)
    /\ TextLeq(r.date, AdaptDate(end))

Select(tbl, symbol, start, end) ==
    OrderByDate(SelectSeq(tbl, LAMBDA r : InRange(r, symbol, start, end)))

\* get_stock_data's return value: the rows as a frame, or None (found = FALSE).
NotFound == [found |-> FALSE, rows |-> <<>>]

GetResult(tbl, symbol, start, end) ==
    LET rows == Select(tbl, symbol, start, end)
    IN  IF Len(rows) > 0
        THEN [found |-> TRUE,
              rows |-> [i \in 1..Len(rows) |->
                          [date |-> ParseDate(rows[i].date), close |-> rows[i].close]]]
        ELSE NotFound

RowsOf(tbl, symbol) == SelectSeq(tbl, LAMBDA r : r.symbol = symbol)

\* SELECT MAX(date), MAX(last_updated) ... WHERE symbol = ? gives (None, None)
\* exactly when the symbol has no row.
NoRows(tbl, symbol) == RowsOf(tbl, symbol) = <<>>

\* MAX(date) of a symbol with rows: the greatest date text.
MaxDate(tbl, symbol) ==
    LET rows == RowsOf(tbl, symbol)
    IN  CHOOSE t \in {rows[i].date : i \in 1..Len(rows)} :
            \A i \in 1..Len(rows) : TextLeq(rows[i].date, t)

IstOffset == 330
CutoffMinute == 1050
DayMinutes == 1440

\* ist_now = datetime.now() + timedelta(hours=5, minutes=30)
IstNow(clock) ==
    LET m == clock.minute + IstOffset
    IN  IF m >= DayMinutes THEN [day |-> clock.day + 1, minute |-> m - DayMinutes]
        ELSE [day |-> clock.day, minute |-> m]

\* latest_required_date of is_data_fresh.
LatestRequiredDate(clock) ==
    LET ist == IstNow(clock)
    IN  IF ist.minute < CutoffMinute THEN ist.day - 2 ELSE ist.day - 1

\* is_data_fresh(symbol): every exception inside is caught and gives False.
IsDataFreshResult(tbl, symbol, clock) ==
    IF NoRows(tbl, symbol) THEN FALSE
    ELSE LET parsed == StrptimeYmd(MaxDate(tbl, symbol))
         IN  IF ~parsed.ok THEN FALSE
             ELSE parsed.day >= LatestRequiredDate(clock)

\* save_stock_data(symbol, data): what it leaves in the store and how it ends.
\* storeOk = FALSE is sqlite failing (StoreAccessError): logged and raised again.
SaveResult(tbl, pk, symbol, frame, storeOk, clock) ==
    IF frame = <<>>
    THEN [table |-> tbl, hasPK |-> pk, saved |-> FALSE, raised |-> FALSE]
    ELSE IF ~storeOk
    THEN [table |-> tbl, hasPK |-> pk, saved |-> FALSE, raised |-> TRUE]
    ELSE [table |-> ToSqlReplace(tbl, DfToSave(symbol, frame, clock)),
          hasPK |-> FALSE, saved |-> TRUE, raised |-> FALSE]

\* ----------------------------------------------------- store operations
InitDb ==
    /\ ret' = [op |-> "_init_db"]
    /\ UNCHANGED <<table, hasPK, now>>

SaveStockData(symbol, frame, storeOk) ==
    LET r == SaveResult(table, hasPK, symbol, frame, storeOk, now)
    IN  /\ table' = r.table
        /\ hasPK' = r.hasPK
        /\ ret' = [op |-> "put", sym |-> symbol, frame |-> frame,
                   saved |-> r.saved, raised |-> r.raised]
        /\ UNCHANGED now

GetStockData(symbol, start, end) ==
    /\ ret' = [op |-> "get", sym |-> symbol, start |-> start, end |-> end,
               value |-> GetResult(table, symbol, start, end)]
    /\ UNCHANGED <<table, hasPK, now>>

IsDataFresh(symbol) ==
    /\ ret' = [op |-> "is_data_fresh", sym |-> symbol, at |-> now,
               value |-> IsDataFreshResult(table, symbol, now)]
    /\ UNCHANGED <<table, hasPK, now>>

\* Time passes between calls.
Tick ==
    /\ \/ /\ \E m \in ClockMinutes : m > now.minute /\ now' = [now EXCEPT !.minute = m]
       \/ /\ now.day < MaxDay
          /\ \E m \in ClockMinutes : now' = [day |-> now.day + 1, minute |-> m]
    /\ UNCHANGED <<table, hasPK, ret>>

StoreInit ==
    /\ table = <<>>
    /\ hasPK = TRUE
    /\ now \in [day : {1}, minute : ClockMinutes]
    /\ ret = [op |-> "_init_db"]

Idle ==
    /\ batch = [todo |-> <<>>, period |-> "1y"]
    /\ data = <<>>
    /\ stage = "idle"
    /\ events = <<>>
    /\ feed = None
    /\ res = None
    /\ sig = None

Init == StoreInit /\ Idle

Next ==
    \/ InitDb /\ UNCHANGED <<batchVars, res, sig>>
    \/ \E s \in StoreSymbols, f \in Frames, ok \in BOOLEAN :
          SaveStockData(s, f, ok) /\ UNCHANGED <<batchVars, res, sig>>
    \/ \E s \in StoreSymbols, a \in Days, b \in Days :
          a <= b /\ GetStockData(s, a, b) /\ UNCHANGED <<batchVars, res, sig>>
    \/ \E s \in StoreSymbols : IsDataFresh(s) /\ UNCHANGED <<batchVars, res, sig>>
    \/ Tick /\ UNCHANGED <<batchVars, res, sig>>

Spec == Init /\ [][Next]_vars

\* The store under _init_db and save_stock_data alone.
NextPut ==
    \/ InitDb /\ UNCHANGED <<batchVars, res, sig>>
    \/ \E s \in StoreSymbols, f \in Frames, ok \in BOOLEAN :
          SaveStockData(s, f, ok) /\ UNCHANGED <<batchVars, res, sig>>

SpecPut == Init /\ [][NextPut]_vars

\* ------------------------------------------------------------- Collector
\* The periods get_stock_data is called with, and the windows the provider is
\* asked for.
CollectorPeriods == {"3mo", "1y"}
FeedPeriods == {"3mo", "1y", "max"}

\* What yfinance's Ticker.history(period) does for one symbol: raise, return an
\* empty frame, or return rows.
Answers == {"error", "empty", "data"}
Feeds == [FeedPeriods -> Answers]

\* The provider's rows: n daily bars ending on lastDay.
Series(n, lastDay) == [i \in 1..n |-> [date |-> lastDay - n + i, close |-> 1]]

\* A DataFrame as the pipeline sees it: its rows, and whether it has the OHLCV
\* columns.  pd.DataFrame() has none.
BareFrame == [rows |-> <<>>, cols |-> FALSE]
EmptyFrame == [rows |-> <<>>, cols |-> TRUE]

\* start_date of get_stock_data, in days before end_date.
LookbackDays(period) == IF period = "3mo" THEN 90
                        ELSE IF period = "1y" THEN 365
                        ELSE 90

\* get_stock_data saving whatever the provider returned, an empty frame too.
CollectorRunSavesEmpty(tbl, pk, clock, symbol, period, fd, n, storeOk) ==
    LET end == clock.day
        start == end - LookbackDays(period)
        fresh == IsDataFreshResult(tbl, symbol, clock)
        cached == IF fresh THEN GetResult(tbl, symbol, start, end) ELSE NotFound
        e1 == <<[call |-> "is_data_fresh", value |-> fresh]>>
              \o (IF fresh THEN <<[call |-> "get", value |-> cached]>> ELSE <<>>)
        e2 == e1 \o <<[call |-> "history", period |-> period, answer |-> fd[period]]>>
        rows == IF fd[period] = "data" THEN Series(n, clock.day) ELSE <<>>
    IN  IF fresh /\ cached.found
        THEN [events |-> e1, table |-> tbl, hasPK |-> pk,
              value |-> [rows |-> cached.rows, cols |-> TRUE]]
        ELSE IF fd[period] = "error"
        THEN [events |-> e2, table |-> tbl, hasPK |-> pk, value |-> BareFrame]
        ELSE IF ~storeOk
        THEN [events |-> e2 \o <<[call |-> "put", raised |-> TRUE]>>,
              table |-> tbl, hasPK |-> pk, value |-> BareFrame]
        ELSE [events |-> e2 \o <<[call |-> "put", raised |-> FALSE]>>,
              table |-> ToSqlReplace(tbl, DfToSave(symbol, rows, clock)),
              hasPK |-> FALSE, value |-> [rows |-> rows, cols |-> TRUE]]

\* StockDataCollector.get_stock_data(symbol, period) as one run: the calls it
\* makes, the store it leaves and the frame it returns.  fd is the provider's
\* behaviour, n the number of bars it has, storeOk whether sqlite works.
CollectorRun(tbl, pk, clock, symbol, period, fd, n, storeOk) ==
    LET end == clock.day
        start == end - LookbackDays(period)
        fresh == IsDataFreshResult(tbl, symbol, clock)
        cached == IF fresh THEN GetResult(tbl, symbol, start, end) ELSE NotFound
        e1 == <<[call |-> "is_data_fresh", value |-> fresh]>>
              \o (IF fresh THEN <<[call |-> "get", value |-> cached]>> ELSE <<>>)
        e2 == e1 \o <<[call |-> "history", period |-> period, answer |-> fd[period]]>>
        rows == Series(n, clock.day)
        saved == SaveResult(tbl, pk, symbol, rows, storeOk, clock)
    IN  IF fresh /\ cached.found
        THEN [events |-> e1, table |-> tbl, hasPK |-> pk,
              value |-> [rows |-> cached.rows, cols |-> TRUE]]
        ELSE IF fd[period] = "error"
        THEN [events |-> e2, table |-> tbl, hasPK |-> pk, value |-> BareFrame]
        ELSE IF fd[period] = "empty" \/ rows = <<>>
        THEN [events |-> e2, table |-> tbl, hasPK |-> pk, value |-> EmptyFrame]
        ELSE IF saved.raised
        THEN [events |-> e2 \o <<[call |-> "put", raised |-> TRUE]>>,
              table |-> saved.table, hasPK |-> saved.hasPK, value |-> BareFrame]
        ELSE [events |-> e2 \o <<[call |-> "put", raised |-> FALSE]>>,
              table |-> saved.table, hasPK |-> saved.hasPK,
              value |-> [rows |-> rows, cols |-> TRUE]]

\* One call of get_stock_data from outside a batch.
CollectorGet(symbol, period, fd, n, storeOk) ==
    LET r == CollectorRun(table, hasPK, now, symbol, period, fd, n, storeOk)
    IN  /\ stage = "idle"
        /\ table' = r.table
        /\ hasPK' = r.hasPK
        /\ events' = r.events
        /\ feed' = fd
        /\ data' = (symbol :> r.value)
        /\ batch' = [todo |-> <<>>, period |-> period]
        /\ UNCHANGED <<now, ret, stage, res, sig>>

NextCollector ==
    \/ \E s \in StoreSymbols, p \in CollectorPeriods, fd \in Feeds, ok \in BOOLEAN :
          CollectorGet(s, p, fd, MaxLen, ok)
    \/ Tick /\ UNCHANGED <<batchVars, res, sig>>

SpecCollector == Init /\ [][NextCollector]_vars

\* ------------------------------------------------------ the batch pipeline
MinObservations == 50

\* The lengths of history the provider has for a symbol during a scan.
SeriesLens == {MinObservations - 1, MinObservations}

\* During one scan the provider answers every window of a symbol alike.
BatchFeeds == {[p \in FeedPeriods |-> a] : a \in Answers}

RECURSIVE NoRepeat(_)
NoRepeat(q) == IF q = <<>> THEN TRUE
               ELSE (\A i \in 2..Len(q) : q[i] # q[1]) /\ NoRepeat(Tail(q))

\* The lists of symbols a scan is run on.
Batches == UNION {{q \in [1..n -> Symbols] : NoRepeat(q)} : n \in 1..Cardinality(Symbols)}

\* run_cli: collector.get_multiple_stock_data(nifty50_symbols, period) begins.
StartBatch(symbols, period) ==
    /\ stage = "idle"
    /\ batch = [todo |-> <<>>, period |-> "1y"]
    /\ data = <<>>
    /\ batch' = [todo |-> symbols, period |-> period]
    /\ stage' = "collect"
    /\ UNCHANGED <<storeVars, data, events, feed, res, sig>>

\* get_multiple_stock_data, one turn of its loop:
\* data[symbol] = self.get_stock_data(symbol, period)
CollectOne(fd, n, storeOk) ==
    /\ stage = "collect"
    /\ batch.todo # <<>>
    /\ LET symbol == Head(batch.todo)
           r == CollectorRun(table, hasPK, now, symbol, batch.period, fd, n, storeOk)
       IN  /\ table' = r.table
           /\ hasPK' = r.hasPK
           /\ events' = r.events
           /\ feed' = fd
           /\ data' = (symbol :> r.value) @@ data
           /\ batch' = [batch EXCEPT !.todo = Tail(batch.todo)]
    /\ UNCHANGED <<now, ret, stage, res, sig>>

\* process_stock_data(data): df.dropna() and df['Close'].pct_change() for every
\* frame; df['Close'] of a frame without columns raises KeyError, which nothing
\* between here and run_cli's caller catches.
ProcessStockData ==
    /\ stage = "collect"
    /\ batch.todo = <<>>
    /\ IF data = <<>>
       THEN stage' = "done"
       ELSE IF \E s \in DOMAIN data : ~data[s].cols
       THEN stage' = "crashed"
       ELSE stage' = "processed"
    /\ UNCHANGED <<storeVars, batch, data, events, feed, res, sig>>

\* calculate_technical_indicators(data): symbols with fewer than 50 rows are
\* skipped.
CalculateTechnicalIndicators ==
    /\ stage = "processed"
    /\ data' = [s \in {t \in DOMAIN data : ~(Len(data[t].rows) < MinObservations)}
                  |-> data[s]]
    /\ stage' = "analyzed"
    /\ UNCHANGED <<storeVars, batch, events, feed, res, sig>>

\* generate_signals(data): one scored frame per analyzed symbol.
GenerateSignals ==
    /\ stage = "analyzed"
    /\ stage' = "done"
    /\ UNCHANGED <<storeVars, batch, data, events, feed, res, sig>>

NextBatch ==
    \/ \E q \in Batches, p \in CollectorPeriods : StartBatch(q, p)
    \/ \E fd \in BatchFeeds, n \in SeriesLens, ok \in BOOLEAN : CollectOne(fd, n, ok)
    \/ ProcessStockData
    \/ CalculateTechnicalIndicators
    \/ GenerateSignals

SpecBatch == Init /\ [][NextBatch]_vars

\* ------------------------------------------------------ fallback resolver
\* A listed symbol: its name and its exchange suffix (".NS", ".BO" or none).
\* get_nifty50_symbols gives every symbol one of the two suffixes.
NiftySymbols == {[name |-> "X", suffix |-> ".NS"], [name |-> "Y", suffix |-> ".BO"]}

\* symbol.replace('.NS', '.BO') / symbol.replace('.BO', '.NS')
AlternateSymbol(symbol) ==
    IF symbol.suffix = ".NS" THEN [symbol EXCEPT !.suffix = ".BO"]
    ELSE IF symbol.suffix = ".BO" THEN [symbol EXCEPT !.suffix = ".NS"]
    ELSE symbol

\* symbol.replace('.NS', '').replace('.BO', '')
BaseSymbol(symbol) == [symbol EXCEPT !.suffix = ""]

\* The default periods fetch_nifty50_data is called with.
ResolverPeriods == {"1mo", "3mo", "1y"}

\* The chain with two of its windows exchanged.
PeriodsSwapped(default) == <<default, "1y", "ytd", "max">>

\* periods = [default_period, "ytd", "1y", "max"]
Periods(default) == <<default, "ytd", "1y", "max">>

\* The provider's bars of one listing, by age in days, and the bars a window
\* reaches back to (the year is 150 days old).
Ages == {20, 120, 400}

InWindow(age, period) ==
    CASE period = "1mo" -> age <= 30
      [] period = "3mo" -> age <= 90
      [] period = "ytd" -> age <= 150
      [] period = "1y" -> age <= 365
      [] OTHER -> TRUE

\* The rows ticker.history(period) returns when it answers from the bars `has`.
HistoryRows(has, period) == {a \in has : InWindow(a, period)}

\* One answer of ticker.history(period): an exception, or rows (maybe none).
Raised == [kind |-> "error", ages |-> {}]
Rows(ages) == [kind |-> "rows", ages |-> ages]

\* start_date = end_date - DateOffset(months=3) / (months=1) / (days=90), as a
\* number of days.
TrimDays(default) == IF default = "3mo" THEN 90
                     ELSE IF default = "1mo" THEN 30
                     ELSE 90

\* stock_data.loc[start_date:end_date]
Trim(ages, default) == {a \in ages : a <= TrimDays(default)}

\* What fetch_stock_data returns for non-empty rows of the window `period`.
Returned(ages, period, default) ==
    [frame |-> IF period # default THEN Trim(ages, default) ELSE ages,
     used |-> period]

NoData == [frame |-> {}, used |-> "None"]

\* A fetch_stock_data call begins: for period in periods.
BeginFetch(r, variant, listing, has) ==
    [r EXCEPT !.pc = "fetch", !.variant = variant, !.listing = listing,
              !.has = has, !.idx = 1, !.calls = <<>>, !.out = NoData]

\* A fetch_stock_data call returns `out`; fetch_nifty50_data has then seen one
\* more listing: how many windows it was asked for and whether the provider
\* answered any of them with rows.
EndFetch(r, out) ==
    [r EXCEPT !.pc = "returned", !.out = out,
              !.tried = Append(@, [listing |-> r.listing, attempts |-> Len(r.calls),
                                   rows |-> \E i \in 1..Len(r.calls) :
                                               r.calls[i].answer.ages # {}])]

\* fetch_nifty50_data, one symbol: stock = yf.Ticker(symbol), then the first
\* fetch_stock_data(stock, symbol, period).  `has` is what the provider holds
\* for the listing.
ResolveSymbol(symbol, period, has) ==
    /\ res = None
    /\ res' = BeginFetch([pc |-> "fetch", symbol |-> symbol, default |-> period,
                          variant |-> "orig", listing |-> symbol, has |-> has,
                          idx |-> 1, calls |-> <<>>, tried |-> <<>>, out |-> NoData,
                          result |-> [stored |-> FALSE, key |-> symbol, frame |-> {}]],
                         "orig", symbol, has)
    /\ UNCHANGED <<storeVars, batchVars, sig>>

\* The loop of fetch_stock_data after an attempt that gave nothing.
AfterNothing(answer) ==
    LET period == Periods(res.default)[res.idx]
        r1 == [res EXCEPT !.calls = Append(@, [period |-> period, answer |-> answer])]
    IN  IF res.idx < Len(Periods(res.default))
        THEN [r1 EXCEPT !.idx = @ + 1]
        ELSE EndFetch(r1, NoData)

\* The exception of ticker.history(period) leaves fetch_stock_data.
FetchRaisesPropagates ==
    /\ res # None
    /\ res.pc = "fetch"
    /\ res' = [res EXCEPT !.pc = "raised",
                          !.calls = Append(@, [period |-> Periods(res.default)[res.idx],
                                               answer |-> Raised])]
    /\ UNCHANGED <<storeVars, batchVars, sig>>

\* ticker.history(period) raises: logged, the loop goes on.
FetchRaises ==
    /\ res # None
    /\ res.pc = "fetch"
    /\ res' = AfterNothing(Raised)
    /\ UNCHANGED <<storeVars, batchVars, sig>>

\* ticker.history(period) returns an empty frame: the loop goes on.
FetchEmpty ==
    /\ res # None
    /\ res.pc = "fetch"
    /\ res' = AfterNothing(Rows({}))
    /\ UNCHANGED <<storeVars, batchVars, sig>>

\* ticker.history(period) returns rows: trimmed if the window is not the
\* default one, and returned with the window.
FetchRows ==
    /\ res # None
    /\ res.pc = "fetch"
    /\ LET period == Periods(res.default)[res.idx]
           ages == HistoryRows(res.has, period)
       IN  /\ ages # {}
           /\ res' = EndFetch(
                  [res EXCEPT !.calls = Append(@, [period |-> period,
                                                   answer |-> Rows(ages)])],
                  Returned(ages, period, res.default))
    /\ UNCHANGED <<storeVars, batchVars, sig>>

\* if stock_data.empty: ... the '.NS' / '.BO' branch.
TryAlternate(has) ==
    /\ res # None
    /\ res.pc = "returned"
    /\ res.variant = "orig"
    /\ res.out.frame = {}
    /\ res.symbol.suffix \in {".NS", ".BO"}
    /\ res' = BeginFetch(res, "alt", AlternateSymbol(res.symbol), has)
    /\ UNCHANGED <<storeVars, batchVars, sig>>

\* if stock_data.empty (still): the base symbol.
TryBase(has) ==
    /\ res # None
    /\ res.pc = "returned"
    /\ \/ res.variant = "alt"
       \/ res.variant = "orig" /\ res.symbol.suffix \notin {".NS", ".BO"}
    /\ res.out.frame = {}
    /\ res' = BeginFetch(res, "base", BaseSymbol(res.symbol), has)
    /\ UNCHANGED <<storeVars, batchVars, sig>>

\* if not stock_data.empty: data[symbol] = stock_data
KeepData ==
    /\ res # None
    /\ res.pc = "returned"
    /\ res.out.frame # {}
    /\ res' = [res EXCEPT !.pc = "done",
                          !.result = [stored |-> TRUE, key |-> res.listing,
                                      frame |-> res.out.frame]]
    /\ UNCHANGED <<storeVars, batchVars, sig>>

\* else: "No data available ... (all formats and periods tried)"
GiveUp ==
    /\ res # None
    /\ res.pc = "returned"
    /\ res.variant = "base"
    /\ res.out.frame = {}
    /\ res' = [res EXCEPT !.pc = "done"]
    /\ UNCHANGED <<storeVars, batchVars, sig>>

NextResolver ==
    \/ \E s \in NiftySymbols, p \in ResolverPeriods, has \in SUBSET Ages :
          ResolveSymbol(s, p, has)
    \/ FetchRaises
    \/ FetchEmpty
    \/ FetchRows
    \/ \E has \in SUBSET Ages : TryAlternate(has)
    \/ \E has \in SUBSET Ages : TryBase(has)
    \/ KeepData
    \/ GiveUp

SpecResolver == Init /\ [][NextResolver]_vars

\* ------------------------------------------------------- signal scoring
\* A missing value of a row (NaN): every comparison with it is False.
NaN == -1

\* row[a] > row[b] and row[a] < row[b] as Python evaluates them on floats.
Gt(a, b) == a # NaN /\ b # NaN /\ a > b
Lt(a, b) == a # NaN /\ b # NaN /\ a < b

\* The indicator columns get_signal_strength reads besides Close.
IndicatorFields == {"SMA_20", "SMA_50", "ADX", "DI_plus", "DI_minus", "RSI",
                    "MACD", "MACD_Signal", "VI_plus", "VI_minus",
                    "Volume_Ratio", "CMF", "S1", "R1", "ATR"}

\* The values of a row of calculate_custom_indicators' frame.  Volume_Ratio is
\* in tenths; every other column is in its own unit, Close being 100.
\* S1 = 2 * Pivot - High and R1 = 2 * Pivot - Low, so S1 <= R1.
Levels == {<<90, 95>>, <<95, 105>>, <<100, 100>>, <<105, 110>>}

FullRows ==
    {[Close |-> 100, SMA_20 |-> sma20, SMA_50 |-> sma50, ADX |-> adx,
      DI_plus |-> dip, DI_minus |-> 1, RSI |-> rsi, MACD |-> macd,
      MACD_Signal |-> 0, VI_plus |-> vip, VI_minus |-> 1,
      Volume_Ratio |-> vr, CMF |-> cmf, S1 |-> lv[1], R1 |-> lv[2], ATR |-> atr] :
        sma20 \in {90, 100, 110}, sma50 \in {80, 120}, adx \in {25, 26},
        dip \in {1, 2}, rsi \in {29, 30, 70, 71}, macd \in {0, 1}, vip \in {1, 2},
        vr \in {15, 16}, cmf \in {0, 1}, lv \in Levels, atr \in {2, 3}}

\* The columns that have no value yet in the first rows of a series: none,
\* the 50-period average, the 20-period windows too, or every indicator.
MissingSets == {{}, {"SMA_50"}, {"SMA_20", "SMA_50", "Volume_Ratio"}, IndicatorFields}

\* A row whose columns `missing` are NaN.
WithMissing(row, missing) ==
    [f \in DOMAIN row |-> IF f \in missing THEN NaN ELSE row[f]]

\* Rules 1-5 of get_signal_strength, in thousandths: the running total before
\* the volume rule.
RunningTotal(row) ==
    LET trend == IF Gt(row.Close, row.SMA_20) /\ Gt(row.SMA_20, row.SMA_50) THEN 1500
                 ELSE IF Lt(row.Close, row.SMA_20) /\ Lt(row.SMA_20, row.SMA_50)
                 THEN -1500 ELSE 0
        adx == IF Gt(row.ADX, 25)
               THEN (IF Gt(row.DI_plus, row.DI_minus) THEN 1000 ELSE -1000)
               ELSE 0
        rsi == IF Lt(row.RSI, 30) THEN 1000
               ELSE IF Gt(row.RSI, 70) THEN -1000 ELSE 0
        macd == IF Gt(row.MACD, row.MACD_Signal) THEN 1000 ELSE -1000
        vortex == IF Gt(row.VI_plus, row.VI_minus) THEN 500 ELSE -500
    IN  trend + adx + rsi + macd + vortex

\* strength * 1.2 and strength * 0.8 whatever the sign.
AmplifySymmetric(row, strength) ==
    IF Gt(row.Volume_Ratio, 15) /\ Gt(row.CMF, 0)
    THEN (strength * 12) \div 10
    ELSE strength

\* if row['Volume_Ratio'] > 1.5 and row['CMF'] > 0:
\*     strength = strength * 1.2 if strength > 0 else strength * 0.8
Amplify(row, strength) ==
    IF Gt(row.Volume_Ratio, 15) /\ Gt(row.CMF, 0)
    THEN (IF strength > 0 THEN (strength * 12) \div 10 ELSE (strength * 8) \div 10)
    ELSE strength

\* Support/Resistance confirmation.
SupportResistance(row, strength) ==
    IF Lt(row.Close, row.S1) THEN strength + 500
    ELSE IF Gt(row.Close, row.R1) THEN strength - 500
    ELSE strength

\* atr_ratio = row['ATR'] / row['Close']; if atr_ratio > 0.02: strength * 0.8
Dampen(row, strength) ==
    IF row.ATR # NaN /\ row.Close # NaN /\ row.ATR * 100 > 2 * row.Close
    THEN (strength * 8) \div 10
    ELSE strength

\* The volatility factor applied a second time.
GetSignalStrengthDampedTwice(row) ==
    Dampen(row, Dampen(row, SupportResistance(row, Amplify(row, RunningTotal(row)))))

\* The volume rule applied after the support/resistance term.
GetSignalStrengthLateAmplifier(row) ==
    Dampen(row, Amplify(row, SupportResistance(row, RunningTotal(row))))

\* get_signal_strength(row), in thousandths.
GetSignalStrength(row) ==
    Dampen(row, SupportResistance(row, Amplify(row, RunningTotal(row))))

\* The conditions with both ends of Hold's range shared with its neighbours.
ConditionsOverlapping(x) ==
    << [signal |-> "Strong Buy", holds |-> x > 2500],
       [signal |-> "Buy", holds |-> x >= 1000 /\ x <= 2500],
       [signal |-> "Hold", holds |-> x >= -1000 /\ x <= 1000],
       [signal |-> "Sell", holds |-> x <= -1000 /\ x >= -2500],
       [signal |-> "Strong Sell", holds |-> x < -2500] >>

\* conditions of generate_signals, in the order of the dictionary.
Conditions(x) ==
    << [signal |-> "Strong Buy", holds |-> x > 2500],
       [signal |-> "Buy", holds |-> x > 1000 /\ x <= 2500],
       [signal |-> "Hold", holds |-> x >= -1000 /\ x <= 1000],
       [signal |-> "Sell", holds |-> x < -1000 /\ x >= -2500],
       [signal |-> "Strong Sell", holds |-> x < -2500] >>

\* df['Signal'] = 'Hold'; for signal, condition in conditions.items():
\*     df.loc[condition, 'Signal'] = signal
RECURSIVE ApplyConditions(_, _)
ApplyConditions(conds, signal) ==
    IF conds = <<>> THEN signal
    ELSE ApplyConditions(Tail(conds), IF conds[1].holds THEN conds[1].signal ELSE signal)

Signal(x) == ApplyConditions(Conditions(x), "Hold")

\* calculate_custom_indicators has produced a row of the frame.
IndicatorRow(row, missing) ==
    /\ sig = None
    /\ sig' = [pc |-> "row", row |-> WithMissing(row, missing)]
    /\ UNCHANGED <<storeVars, batchVars, res>>

\* generate_signals on that row: df.apply(get_signal_strength, axis=1), then
\* the conditions.  Nothing in get_signal_strength raises on a NaN.
ScoreRow ==
    /\ sig # None
    /\ sig.pc = "row"
    /\ sig' = [pc |-> "scored", row |-> sig.row,
               running |-> RunningTotal(sig.row),
               amplified |-> Amplify(sig.row, RunningTotal(sig.row)),
               strength |-> GetSignalStrength(sig.row),
               signal |-> Signal(GetSignalStrength(sig.row))]
    /\ UNCHANGED <<storeVars, batchVars, res>>

NextScore ==
    \/ /\ sig = None
       /\ \E row \in FullRows, missing \in MissingSets : IndicatorRow(row, missing)
    \/ ScoreRow

SpecScore == Init /\ [][NextScore]_vars

\* ------------------------------------------------------------------ claims
FrameDates(frame) == {frame[i].date : i \in 1..Len(frame)}

\* C1: a put for symbol s leaves the stored rows (and their last_updated) of
\* every other symbol unchanged.
C1_PutScopedToSymbol ==
    [][\A s \in Symbols :
          (ret'.op = "put" /\ ret'.sym = s)
             => \A t \in Symbols \ {s} : RowsOf(table', t) = RowsOf(table, t)]_vars

\* C2: a put of a non-empty series followed immediately by a get of the same
\* symbol over a range containing every date of the series returns exactly the
\* rows of the series, ascending, without duplicates.
C2_RoundTrip ==
    [][(/\ ret.op = "put" 
        /\ ret.saved
        /\ ret'.op = "get" 
        /\ ret'.sym = ret.sym
        /\ \A d \in FrameDates(ret.frame) : ret'.start <= d /\ d <= ret'.end)
          => ret'.value = [found |-> TRUE, rows |-> ret.frame]]_vars

\* C3: is_data_fresh is true exactly when a last_updated exists for the symbol
\* and its maximum stored date is at least the required date (IST-today - 2
\* before 17:30 IST, IST-today - 1 from 17:30 on).
C3_FreshIffRecentEnough ==
    ret.op = "is_data_fresh" =>
        (ret.value <=>
            /\ ~NoRows(table, ret.sym)
            /\ ParseDate(MaxDate(table, ret.sym)) >= LatestRequiredDate(ret.at))

\* C4: on a miss, when the provider has nothing for the requested window but
\* has rows for a later window of the chain, get_stock_data still returns a
\* non-empty series and writes it to the cache.
C4_CollectorFallsBack ==
    (/\ stage = "idle"
     /\ events # <<>>
     /\ events[Len(events)].call = "history"
     /\ feed[batch.period] = "empty"
     /\ feed["max"] = "data")
        => \A s \in DOMAIN data : data[s].rows # <<>> /\ ~NoRows(table, s)

\* C5: whatever the per-symbol outcomes, the pipeline is never aborted, and a
\* scan in which no symbol has data completes with an empty result.
C5_BatchNeverAborts ==
    /\ stage # "crashed"
    /\ (stage = "done" /\ \A s \in DOMAIN data : data[s].rows = <<>>) => data = <<>>

\* The current fetch_stock_data call has returned.
FetchReturned == res # None /\ res.pc \in {"returned", "done"}

GaveRows(call) == call.answer.ages # {}

C7_TrimmedToDefaultWindow ==
    (FetchReturned /\ res.out.used \notin {"None", res.default}) =>
        /\ res.out.frame = {a \in res.calls[Len(res.calls)].answer.ages :
                               InWindow(a, res.default)}
        /\ res.out.used = res.calls[Len(res.calls)].period

\* C8: a reported window comes with a non-empty series.
C8_WindowMeansRows ==
    (FetchReturned /\ res.out.used # "None") => res.out.frame # {}

\* The listing was asked for all four windows and none gave rows.
ChainExhausted(t) == t.attempts = 4 /\ ~t.rows

\* C9: the alternate listing is tried only after the original's whole chain
\* gave nothing, the base symbol only after the alternate's whole chain gave
\* nothing too, nothing is tried after a listing gave rows, and the symbol is
\* left out only when every listing and window gave nothing.
C9_ListingEscalation ==
    res # None =>
        /\ \A i \in 1..Len(res.tried) :
              (i < Len(res.tried) \/ res.pc = "fetch") => ChainExhausted(res.tried[i])
        /\ (res.pc = "done" /\ ~res.result.stored) =>
              /\ Len(res.tried) = 3
              /\ \A i \in 1..Len(res.tried) : ChainExhausted(res.tried[i])

\* fetch_stock_data as a function of the answers it got, in order.
RECURSIVE ChainOutcome(_, _, _)
ChainOutcome(default, answers, i) ==
    IF i > Len(answers) THEN NoData
    ELSE IF answers[i].ages # {}
    THEN Returned(answers[i].ages, Periods(default)[i], default)
    ELSE ChainOutcome(default, answers, i + 1)

\* The answers of a call with every exception replaced by an empty frame.
AsIfEmpty(calls) ==
    [i \in 1..Len(calls) |->
        IF calls[i].answer.kind = "error" THEN Rows({}) ELSE calls[i].answer]

\* C10: an attempt that raises counts as an empty one: the next window is
\* asked for, nothing is raised out of the resolution, and the call returns
\* what it would return had the attempt come back empty.
C10_ErrorIsEmpty ==
    res # None =>
        /\ res.pc # "raised"
        /\ \A i \in 1..Len(res.calls) :
              (res.calls[i].answer.kind = "error" /\ i < 4 /\ FetchReturned)
                  => Len(res.calls) > i
        /\ FetchReturned => res.out = ChainOutcome(res.default, AsIfEmpty(res.calls), 1)

C10_Witness ==
    /\ FetchReturned
    /\ Len(res.calls) >= 2
    /\ res.calls[1].answer.kind = "error"
    /\ res.out.frame # {}

\* The stored rows of a symbol dated within [start, end], as (date, close).
StoredInRange(tbl, symbol, start, end) ==
    {[date |-> ParseDate(tbl[i].date), close |-> tbl[i].close] :
        i \in {k \in 1..Len(tbl) : /\ tbl[k].symbol = symbol
                                    /\ start <= ParseDate(tbl[k].date)
                                    /\ ParseDate(tbl[k].date) <= end}}

\* C11: get(S, start, end) returns exactly the stored rows of S dated from
\* start to end, both days included, in ascending date order, and NotFound
\* when S has no such row.
C11_GetInclusiveRange ==
    ret.op = "get" =>
        LET want == StoredInRange(table, ret.sym, ret.start, ret.end)
        IN  IF want = {}
            THEN ret.value = NotFound
            ELSE /\ ret.value.found
                 /\ {ret.value.rows[i] : i \in 1..Len(ret.value.rows)} = want
                 /\ Ascending(ret.value.rows)

FullyPopulated(row) == \A f \in DOMAIN row : row[f] # NaN

Scored == sig # None /\ sig.pc = "scored"

\* The terms of the scoring formula as the rules state them, in thousandths.
TrendTerm(row) ==
    CASE row.Close > row.SMA_20 /\ row.SMA_20 > row.SMA_50 -> 1500
      [] row.Close < row.SMA_20 /\ row.SMA_20 < row.SMA_50 -> -1500
      [] OTHER -> 0
AdxTerm(row) ==
    CASE row.ADX <= 25 -> 0
      [] row.ADX > 25 /\ row.DI_plus > row.DI_minus -> 1000
      [] OTHER -> -1000
RsiTerm(row) ==
    CASE row.RSI < 30 -> 1000
      [] row.RSI > 70 -> -1000
      [] OTHER -> 0
MacdTerm(row) == IF row.MACD > row.MACD_Signal THEN 1000 ELSE -1000
VortexTerm(row) == IF row.VI_plus > row.VI_minus THEN 500 ELSE -500
RulesSum(row) == TrendTerm(row) + AdxTerm(row) + RsiTerm(row) + MacdTerm(row) + VortexTerm(row)
AmplifierOn(row) == row.Volume_Ratio > 15 /\ row.CMF > 0
\* The factors in tenths.
AmpFactor(row) == IF ~AmplifierOn(row) THEN 10 ELSE IF RulesSum(row) > 0 THEN 12 ELSE 8
LevelTerm(row) ==
    CASE row.Close < row.S1 -> 500
      [] row.Close > row.R1 -> -500
      [] OTHER -> 0
DampFactor(row) == IF row.ATR * 100 > 2 * row.Close THEN 8 ELSE 10

\* C13: the strength of a fully populated row is
\* ((T + A + R + M + V) * amp + SR) * damp, and the row with an uptrend, a
\* weak ADX, a neutral RSI, MACD and Vortex down, no amplifier, the close
\* between S1 and R1 and a low ATR scores exactly 0 and is a Hold.
C13_ScoreFormula ==
    (Scored /\ FullyPopulated(sig.row)) =>
        LET row == sig.row
        IN  /\ 100 * sig.strength =
                  (RulesSum(row) * AmpFactor(row) + 10 * LevelTerm(row)) * DampFactor(row)
            /\ (/\ row.Close > row.SMA_20 /\ row.SMA_20 > row.SMA_50
                /\ row.ADX <= 25 /\ row.RSI >= 30 /\ row.RSI <= 70
                /\ row.MACD <= row.MACD_Signal /\ row.VI_plus <= row.VI_minus
                /\ ~AmplifierOn(row)
                /\ row.S1 <= row.Close /\ row.Close <= row.R1
                /\ row.ATR * 100 <= 2 * row.Close)
                   => sig.strength = 0 /\ sig.signal = "Hold"

C13_Witness ==
    /\ Scored
    /\ FullyPopulated(sig.row)
    /\ AmplifierOn(sig.row)
    /\ LevelTerm(sig.row) # 0
    /\ DampFactor(sig.row) = 8
    /\ sig.strength # 0

\* The category the thresholds give a score, in thousandths.
CategoryOf(x) ==
    CASE x > 2500 -> "Strong Buy"
      [] x > 1000 /\ x <= 2500 -> "Buy"
      [] x >= -1000 /\ x <= 1000 -> "Hold"
      [] x >= -2500 /\ x < -1000 -> "Sell"
      [] x < -2500 -> "Strong Sell"

\* C14: exactly one of the five conditions holds of a score, the signal
\* assigned is the one of that condition whatever the order of application,
\* and it is the category of the thresholds (1.0 and -1.0 Hold, 2.5 Buy,
\* -2.5 Sell).
C14_CategoriesPartition ==
    Scored =>
        LET conds == Conditions(sig.strength)
            held == {i \in 1..Len(conds) : conds[i].holds}
        IN  /\ Cardinality(held) = 1
            /\ \A i \in held : conds[i].signal = sig.signal
            /\ sig.signal = CategoryOf(sig.strength)
            /\ sig.strength \in {1000, -1000} => sig.signal = "Hold"
            /\ sig.strength = 2500 => sig.signal = "Buy"
            /\ sig.strength = -2500 => sig.signal = "Sell"

C14_Witness == Scored /\ sig.strength = -1000 /\ sig.signal = "Hold"

\* C15: a row with a missing indicator value is never scored: it ends with
\* no strength and no signal.
C15_MissingRowNotScored ==
    (sig # None /\ ~FullyPopulated(sig.row)) => sig.pc # "scored"

C18_AmplifierNeverLowers ==
    Scored =>
        LET S == sig.running
            a == sig.amplified
        IN  IF AmplifierOn(sig.row)
            THEN /\ 10 * a = (IF S > 0 THEN 12 * S ELSE 8 * S)
                 /\ a >= S
                 /\ (S > 0 <=> a > 0) /\ (S < 0 <=> a < 0)
            ELSE a = S

C18_Witness == Scored /\ AmplifierOn(sig.row) /\ sig.running < 0 /\ sig.amplified > sig.running

\* The symbols whose collection gave at least 50 observations.
LongEnough(d) == {s \in DOMAIN d : d[s].rows # <<>> /\ Len(d[s].rows) >= 50}

\* C16: a scan always gets through its stages, and the symbols of its scored
\* output are exactly those whose collection gave data with at least 50
\* observations.
C16_ScoredMembership ==
    [][/\ stage = "collect" => stage' # "crashed"
       /\ (stage = "processed" /\ stage' = "analyzed") => DOMAIN data' = LongEnough(data)
       /\ (stage = "analyzed" /\ stage' = "done") => data' = data]_vars

\* The calls of a run that are calls of `name`.
CallsOf(ev, name) == {i \in 1..Len(ev) : ev[i].call = name}

\* The symbol the last get_stock_data run was for.
RunSymbol(d) == CHOOSE s \in DOMAIN d : TRUE

\* C19: in a run of get_stock_data the freshness check is the first call; the
\* provider is called only when the check said not fresh or get found
\* nothing; the cache is written only after the provider gave rows in that
\* run; a hit returns the cached rows with no provider call and no write; an
\* empty or failed fetch leaves the cache as it was.
C19_CollectorOrder ==
    [][(now' = now) =>
        LET ev == events'
            sym == RunSymbol(data')
            hist == CallsOf(ev, "history")
        IN  /\ ev # <<>>
            /\ ev[1].call = "is_data_fresh"
            /\ hist # {} =>
                  \/ ~ev[1].value
                  \/ \E i \in CallsOf(ev, "get") : ~ev[i].value.found
            /\ \A i \in CallsOf(ev, "put") :
                  \E j \in hist : j < i /\ ev[j].answer = "data"
            /\ CallsOf(ev, "put") = {} => table' = table
            /\ hist = {} =>
                  /\ ev[1].value
                  /\ \E i \in CallsOf(ev, "get") :
                        ev[i].value.found /\ data'[sym].rows = ev[i].value.rows
            /\ (\E j \in hist : ev[j].answer # "data") => table' = table]_vars

C19_Witness ==
    /\ Len(events) = 3
    /\ events[1].call = "is_data_fresh"
    /\ events[2].call = "history" /\ events[2].answer = "data"
    /\ events[3].call = "put" /\ ~events[3].raised
    /\ ~NoRows(table, RunSymbol(data))

\* C20: when a run for S under the shorter window has filled the cache and
\* its latest stored date is recent enough, a run for S under the longer
\* window does not call the provider and returns the cached rows.
C20_HitWhateverThePeriod ==
    [][(/\ now' = now
        /\ DOMAIN data # {}
        /\ DOMAIN data' = DOMAIN data
        /\ batch.period = "3mo" /\ batch'.period = "1y"
        /\ ~NoRows(table, RunSymbol(data))
        /\ ParseDate(MaxDate(table, RunSymbol(data))) >= LatestRequiredDate(now))
          => /\ CallsOf(events', "history") = {}
             /\ data'[RunSymbol(data)].rows =
                   GetResult(table, RunSymbol(data), now.day - LookbackDays("1y"), now.day).rows]_vars
====
